---- MODULE Spec2Model ----
(***************************************************************************)
(* A model of Vanish (edpg library + cli): PNG chunk types, chunks, the    *)
(* PNG container and the command line operations built on them.            *)
(*                                                                         *)
(* Bytes are naturals 0..255.  A u32 is kept as two 16-bit halves          *)
(* [hi, lo] (value hi * 65536 + lo), so that no arithmetic leaves the      *)
(* range of the model checker's integers.  A Rust text (&str / String) is  *)
(* a sequence of characters, each character being the sequence of its      *)
(* UTF-8 bytes.  A Result is a record tagged "Ok" or "Err"; a panic of the *)
(* process is the record tagged "Panic".                                   *)
(***************************************************************************)
EXTENDS Integers, Sequences, FiniteSets, TLC

VARIABLES
    s,          \* text handed to ChunkType::from_str
    raw,        \* 4-byte array handed to ChunkType::try_from([u8; 4])
    chunk_type, \* Result of the last ChunkType construction (or NoValue)
    flags,      \* what the ChunkType queries answered (or NoValue)
    data,       \* payload handed to Chunk::new
    chunk,      \* the Chunk built by Chunk::new (or NoValue)
    value,      \* byte buffer handed to Chunk::try_from(&[u8])
    parsed,     \* Result of Chunk::try_from(value) (or NoValue)
    step,       \* how far the library calls have got
    command,    \* args.command: the parsed command line
    disk,       \* the files: path -> [exists, bytes]
    pc,         \* position of main in the arm of the command
    file_as_bytes, \* main: the bytes read from the source file
    png,        \* main: the container in hand (file_as_png / copy / png)
    popped,     \* main: the chunk found or removed (msg / popped)
    out_buf,    \* main: the serialised container handed to write_all
    touched,    \* the paths File::create has created or truncated so far
    stdout,     \* what main has printed
    exit        \* how the process ended (NoValue while it runs)

libvars == <<s, raw, chunk_type, flags, data, chunk, value, parsed, step>>

clivars ==
    <<command, disk, pc, file_as_bytes, png, popped, out_buf, touched, stdout,
      exit>>

NoValue == [tag |-> "None"]
Ok(v) == [tag |-> "Ok", val |-> v]
Err(e) == [tag |-> "Err", err |-> e]
Panic == [tag |-> "Panic"]

----------------------------------------------------------------------------
(* Bytes, texts and 32-bit words                                           *)

Byte == 0..255

RECURSIVE Flatten(_)
\* str::as_bytes: the UTF-8 bytes of a text, character after character
Flatten(text) ==
    IF text = <<>> THEN <<>> ELSE Head(text) \o Flatten(Tail(text))

as_bytes_of_str(text) == Flatten(text)

\* str::len: the length of a text in bytes, not in characters
str_len(text) == Len(as_bytes_of_str(text))

\* String::into_bytes
into_bytes(text) == as_bytes_of_str(text)

is_ascii_uppercase(b) == b >= 65 /\ b <= 90

is_ascii_lowercase(b) == b >= 97 /\ b <= 122

is_ascii_alphabetic(b) == is_ascii_uppercase(b) \/ is_ascii_lowercase(b)

Half == 256 * 256

\* usize -> u32 cast (wraps modulo 2^32)
as_u32(n) == [hi |-> (n \div Half) % Half, lo |-> n % Half]

\* u32::to_be_bytes
to_be_bytes(u) ==
    <<u.hi \div 256, u.hi % 256, u.lo \div 256, u.lo % 256>>

\* u32::from_be_bytes
from_be_bytes(b) ==
    [hi |-> b[1] * 256 + b[2], lo |-> b[3] * 256 + b[4]]

\* (u as usize) > n, for n < 2^16 (every buffer of the model is that short)
usize_exceeds(u, n) == u.hi > 0 \/ u.lo > n

\* u as usize, where it does not exceed a buffer length
as_usize(u) == u.lo

RECURSIVE Xor(_, _)
Xor(a, b) ==
    IF a = 0 THEN b
    ELSE IF b = 0 THEN a
    ELSE 2 * Xor(a \div 2, b \div 2) + ((a + b) % 2)

XorWord(u, w) == [hi |-> Xor(u.hi, w.hi), lo |-> Xor(u.lo, w.lo)]

\* CRC_32_ISO_HDLC: poly 0x04C11DB7 reflected (0xEDB88320), init and xorout
\* 0xFFFFFFFF, input and output reflected
CrcPolyReflected == [hi |-> 60856, lo |-> 33568]

CrcAllOnes == [hi |-> 65535, lo |-> 65535]

ShiftRight1(u) ==
    [hi |-> u.hi \div 2, lo |-> (u.lo \div 2) + (u.hi % 2) * 32768]

\* one bit of the reflected division
CrcBit(u) ==
    IF u.lo % 2 = 1
    THEN XorWord(ShiftRight1(u), CrcPolyReflected)
    ELSE ShiftRight1(u)

\* the crc crate's lookup table: entry i is i divided through 8 bits
CrcTableEntry(i) ==
    LET w0 == [hi |-> 0, lo |-> i]
        w1 == CrcBit(w0)
        w2 == CrcBit(w1)
        w3 == CrcBit(w2)
        w4 == CrcBit(w3)
        w5 == CrcBit(w4)
        w6 == CrcBit(w5)
        w7 == CrcBit(w6)
    IN  CrcBit(w7)

CrcTable == [i \in 0..255 |-> CrcTableEntry(i)]

ShiftRight8(u) ==
    [hi |-> u.hi \div 256, lo |-> (u.lo \div 256) + (u.hi % 256) * 256]

\* crc = table[(crc ^ byte) & 0xFF] ^ (crc >> 8)
CrcByte(u, b) == XorWord(CrcTable[Xor(u.lo % 256, b)], ShiftRight8(u))

RECURSIVE CrcUpdate(_, _, _)
CrcUpdate(u, bs, i) ==
    IF i > Len(bs) THEN u
    ELSE LET next == CrcByte(u, bs[i])
         IN  IF next.lo >= 0 THEN CrcUpdate(next, bs, i + 1) ELSE next

\* Crc::<u32>::checksum
checksum(bs) == XorWord(CrcUpdate(CrcAllOnes, bs, 1), CrcAllOnes)

----------------------------------------------------------------------------
(* chunk_type.rs                                                           *)

bytes(ct) == ct.bytes

is_valid_byte(ct) ==
    IF ~(\A i \in 1..4 : is_ascii_alphabetic(bytes(ct)[i]))
    THEN Err("NonAsciiCharFound")
    ELSE Ok(TRUE)

is_reserved_bit_valid(ct) ==
    IF is_ascii_uppercase(bytes(ct)[3])
    THEN Ok(TRUE)
    ELSE Err("InvalidChunkType")

is_valid_no_reserved(ct) == is_valid_byte(ct)

is_valid_bytes_first(ct) ==
    IF is_valid_byte(ct).tag = "Err" THEN is_valid_byte(ct)
    ELSE IF is_reserved_bit_valid(ct).tag = "Err" THEN is_reserved_bit_valid(ct)
    ELSE Ok(TRUE)

is_valid(ct) ==
    IF is_reserved_bit_valid(ct).tag = "Err" THEN is_reserved_bit_valid(ct)
    ELSE IF is_valid_byte(ct).tag = "Err" THEN is_valid_byte(ct)
    ELSE Ok(TRUE)

is_critical(ct) == is_ascii_uppercase(bytes(ct)[1])

is_public(ct) == is_ascii_uppercase(bytes(ct)[2])

is_safe_to_copy(ct) == is_ascii_lowercase(bytes(ct)[4])

\* impl TryFrom<[u8; 4]> for ChunkType: no validation
ChunkType_try_from(b) == Ok([bytes |-> b])

from_str_by_chars(text) ==
    IF Len(text) # 4 THEN Err("InvalidLength")
    ELSE IF is_valid_byte([bytes |-> SubSeq(as_bytes_of_str(text), 1, 4)]).tag = "Err"
    THEN Err("NonAsciiCharFound")
    ELSE Ok([bytes |-> SubSeq(as_bytes_of_str(text), 1, 4)])

\* impl FromStr for ChunkType
from_str(text) ==
    IF str_len(text) # 4 THEN Err("InvalidLength")
    ELSE IF is_valid_byte([bytes |-> as_bytes_of_str(text)]).tag = "Err"
    THEN is_valid_byte([bytes |-> as_bytes_of_str(text)])
    ELSE Ok([bytes |-> as_bytes_of_str(text)])

----------------------------------------------------------------------------
(* chunk.rs                                                                *)

CHUNK_TYPE_BYTES == 4

CRC_LENGTH_BYTES == 4

LENGTH_BYTES == 4

METADATA_BYTES == LENGTH_BYTES + CHUNK_TYPE_BYTES + CRC_LENGTH_BYTES

Chunk_new(ct, d) == [chunk_type |-> ct, data |-> d]

length(c) == as_u32(Len(c.data))

\* a checksum that covers the length field too
crc_with_length(c) ==
    checksum(to_be_bytes(length(c)) \o bytes(c.chunk_type) \o c.data)

crc(c) == checksum(bytes(c.chunk_type) \o c.data)

as_bytes(c) ==
    to_be_bytes(as_u32(Len(c.data)))
        \o bytes(c.chunk_type)
        \o c.data
        \o to_be_bytes(crc(c))

\* slice::split_at(mid): panics when mid > len
split_at_panics(v, mid) == mid > Len(v)

split_left(v, mid) == SubSeq(v, 1, mid)

split_right(v, mid) == SubSeq(v, mid + 1, Len(v))

ShortInput(n) == [kind |-> "ShortInput", n |-> n]

ChunkTypeError(e) == [kind |-> "ChunkTypeError", inner |-> e]

IncorrectCrc(found, expected) ==
    [kind |-> "IncorrectCrc", found_crc |-> found, expected_crc |-> expected]

try_from_body_unchecked(data_length, ct, rest) ==
    IF usize_exceeds(data_length, Len(rest)) THEN Panic
    ELSE IF split_at_panics(split_right(rest, as_usize(data_length)),
                            CRC_LENGTH_BYTES) THEN Panic
    ELSE Ok([chunk_type |-> ct, data |-> split_left(rest, as_usize(data_length))])

\* a tail that takes the stored checksum from the last 4 bytes of the buffer
try_from_body_to_end(data_length, ct, rest) ==
    IF usize_exceeds(data_length, Len(rest)) THEN Panic
    ELSE IF split_at_panics(split_right(rest, as_usize(data_length)),
                            CRC_LENGTH_BYTES) THEN Panic
    ELSE LET payload == split_left(rest, as_usize(data_length))
             crc_bytes == SubSeq(rest, Len(rest) - 3, Len(rest))
             tmp == [chunk_type |-> ct, data |-> payload]
             found_crc == from_be_bytes(crc_bytes)
             expected_crc == crc(tmp)
         IN  IF found_crc # expected_crc
             THEN Err(IncorrectCrc(found_crc, expected_crc))
             ELSE Ok([chunk_type |-> ct, data |-> payload])

\* the tail of Chunk::try_from, once the type has passed is_valid
try_from_body(data_length, ct, rest) ==
    IF usize_exceeds(data_length, Len(rest)) THEN Panic
    ELSE IF split_at_panics(split_right(rest, as_usize(data_length)),
                            CRC_LENGTH_BYTES) THEN Panic
    ELSE LET payload == split_left(rest, as_usize(data_length))
             crc_bytes == split_left(split_right(rest, as_usize(data_length)),
                                     CRC_LENGTH_BYTES)
             tmp == [chunk_type |-> ct, data |-> payload]
             found_crc == from_be_bytes(crc_bytes)
             expected_crc == crc(tmp)
         IN  IF found_crc # expected_crc
             THEN Err(IncorrectCrc(found_crc, expected_crc))
             ELSE Ok([chunk_type |-> ct, data |-> payload])

\* impl TryFrom<&[u8]> for Chunk
Chunk_try_from(v) ==
    IF Len(v) < METADATA_BYTES THEN Err(ShortInput(METADATA_BYTES))
    ELSE LET data_length == from_be_bytes(split_left(v, LENGTH_BYTES))
             after_len == split_right(v, LENGTH_BYTES)
             ct == ChunkType_try_from(split_left(after_len, CHUNK_TYPE_BYTES)).val
             rest == split_right(after_len, CHUNK_TYPE_BYTES)
         IN  IF is_valid(ct).tag = "Err"
             THEN Err(ChunkTypeError(is_valid(ct).err))
             ELSE try_from_body(data_length, ct, rest)

----------------------------------------------------------------------------
(* Inputs of the library specifications                                    *)

MaxChars == 5

MaxData == 2

MaxExtra == 2

\* 'R' 'u' 'S' 't' '1' and the two-byte character U+00E9
TextChars == {<<82>>, <<117>>, <<83>>, <<116>>, <<49>>, <<195, 169>>}

Texts == UNION {[1..n -> TextChars] : n \in 0..MaxChars}

\* bytes on both sides of the edges of 'A'..'Z' and 'a'..'z', and "RuSt"
RawBytes == {64, 65, 90, 91, 96, 97, 122, 123, 82, 117, 83, 116}

RawArrays == [1..4 -> RawBytes]

\* "RuSt" "Rust" "bOAT" "rust" "Ru1t" "abc" "bc\u00e9"
TypeTexts ==
    { <<<<82>>, <<117>>, <<83>>, <<116>>>>,
      <<<<82>>, <<117>>, <<115>>, <<116>>>>,
      <<<<98>>, <<79>>, <<65>>, <<84>>>>,
      <<<<114>>, <<117>>, <<115>>, <<116>>>>,
      <<<<82>>, <<117>>, <<49>>, <<116>>>>,
      <<<<97>>, <<98>>, <<99>>>>,
      <<<<98>>, <<99>>, <<195, 169>>>> }

PayloadBytes == {0, 65, 255}

Payloads == UNION {[1..n -> PayloadBytes] : n \in 0..MaxData}

EditBytes == {0, 1, 49, 65, 97, 255}

ExtraTails == UNION {[1..n -> {0, 65}] : n \in 1..MaxExtra}

CliIdle ==
    /\ command = NoValue
    /\ disk = NoValue
    /\ pc = "none"
    /\ file_as_bytes = <<>>
    /\ png = NoValue
    /\ popped = NoValue
    /\ out_buf = NoValue
    /\ touched = {}
    /\ stdout = <<>>
    /\ exit = NoValue

LibIdle ==
    /\ chunk_type = NoValue
    /\ flags = NoValue
    /\ chunk = NoValue
    /\ value = <<>>
    /\ parsed = NoValue

----------------------------------------------------------------------------
(* SpecType: the constructors and queries of ChunkType                     *)

TypeInit ==
    /\ LibIdle
    /\ CliIdle
    /\ data = <<>>
    /\ \/ step = "text" /\ s \in Texts /\ raw = <<0, 0, 0, 0>>
       \/ step = "raw" /\ s = <<>> /\ raw \in RawArrays

\* ChunkType::from_str(s)
FromStr ==
    /\ step = "text"
    /\ chunk_type' = from_str(s)
    /\ step' = "typed_text"
    /\ UNCHANGED <<s, raw, flags, data, chunk, value, parsed>>
    /\ UNCHANGED clivars

\* ChunkType::try_from(raw)
TryFromRaw ==
    /\ step = "raw"
    /\ chunk_type' = ChunkType_try_from(raw)
    /\ step' = "typed_raw"
    /\ UNCHANGED <<s, raw, flags, data, chunk, value, parsed>>
    /\ UNCHANGED clivars

\* the queries of a constructed ChunkType
Query ==
    /\ step \in {"typed_text", "typed_raw"}
    /\ chunk_type.tag = "Ok"
    /\ flags' = [is_valid |-> is_valid(chunk_type.val),
                 is_critical |-> is_critical(chunk_type.val),
                 is_public |-> is_public(chunk_type.val),
                 is_reserved_bit_valid |-> is_reserved_bit_valid(chunk_type.val),
                 is_safe_to_copy |-> is_safe_to_copy(chunk_type.val)]
    /\ step' = "queried"
    /\ UNCHANGED <<s, raw, chunk_type, data, chunk, value, parsed>>
    /\ UNCHANGED clivars

TypeNext == FromStr \/ TryFromRaw \/ Query

----------------------------------------------------------------------------
(* SpecChunk: a chunk is built, serialised, carried and parsed             *)

ChunkInit ==
    /\ LibIdle
    /\ CliIdle
    /\ step = "chunk_input"
    /\ raw = <<0, 0, 0, 0>>
    /\ s \in TypeTexts
    /\ data \in Payloads

\* the chunk type argument is parsed with ChunkType::from_str
ParseType ==
    /\ step = "chunk_input"
    /\ chunk_type' = from_str(s)
    /\ step' = IF from_str(s).tag = "Ok" THEN "chunk_typed" ELSE "rejected"
    /\ UNCHANGED <<s, raw, flags, data, chunk, value, parsed>>
    /\ UNCHANGED clivars

\* Chunk::new(chunk_type, data)
ChunkNew ==
    /\ step = "chunk_typed"
    /\ chunk' = Chunk_new(chunk_type.val, data)
    /\ step' = "built"
    /\ UNCHANGED <<s, raw, chunk_type, flags, data, value, parsed>>
    /\ UNCHANGED clivars

\* chunk.as_bytes()
AsBytes ==
    /\ step = "built"
    /\ value' = as_bytes(chunk)
    /\ step' = "serialized"
    /\ UNCHANGED <<s, raw, chunk_type, flags, data, chunk, parsed>>
    /\ UNCHANGED clivars

Received ==
    /\ step' = "received"
    /\ UNCHANGED <<s, raw, chunk_type, flags, data, chunk, parsed>>
    /\ UNCHANGED clivars

\* the record reaches the parser as written
Deliver ==
    /\ step = "serialized"
    /\ value' = value
    /\ Received

\* the record reaches the parser cut short
Truncate ==
    /\ step = "serialized"
    /\ \E n \in 0..(Len(value) - 1) : value' = SubSeq(value, 1, n)
    /\ Received

\* the record reaches the parser followed by further bytes
Extend ==
    /\ step = "serialized"
    /\ \E tail \in ExtraTails : value' = value \o tail
    /\ Received

\* one byte of the record is overwritten
SetByte ==
    /\ step = "serialized"
    /\ \E i \in 1..Len(value), b \in EditBytes :
           value' = [value EXCEPT ![i] = b]
    /\ Received

\* one bit of the stored checksum is flipped
FlipCrcBit ==
    /\ step = "serialized"
    /\ \E i \in (Len(value) - 3)..Len(value), k \in {1, 2, 4, 8, 16, 32, 64, 128} :
           value' = [value EXCEPT ![i] = Xor(value[i], k)]
    /\ Received

\* Chunk::try_from(value)
TryFrom ==
    /\ step = "received"
    /\ parsed' = Chunk_try_from(value)
    /\ step' = "parsed"
    /\ UNCHANGED <<s, raw, chunk_type, flags, data, chunk, value>>
    /\ UNCHANGED clivars

ChunkNext ==
    \/ ParseType
    \/ ChunkNew
    \/ AsBytes
    \/ Deliver
    \/ Truncate
    \/ Extend
    \/ SetByte
    \/ FlipCrcBit
    \/ TryFrom

----------------------------------------------------------------------------
(* png.rs: the container, as the specification describes it (sections 4.3  *)
(* and 7); chunk parsing inside it is Chunk::try_from above                 *)

STANDARD_HEADER == <<137, 80, 78, 71, 13, 10, 26, 10>>

InvalidSignature == [kind |-> "InvalidSignature"]

NotFound == [kind |-> "NotFound"]

IoError == [kind |-> "Io"]

Some(v) == [tag |-> "Some", val |-> v]

RECURSIVE parse_chunks(_, _)
\* Chunk::try_from on successive suffixes, each consuming 12 + L bytes; the
\* first failure (or panic) ends the parse
parse_chunks(rest, acc) ==
    IF rest = <<>> THEN Ok([chunks |-> acc])
    ELSE LET r == Chunk_try_from(rest)
         IN  IF r.tag # "Ok" THEN r
             ELSE parse_chunks(
                      SubSeq(rest, METADATA_BYTES + Len(r.val.data) + 1, Len(rest)),
                      Append(acc, r.val))

\* impl TryFrom<&[u8]> for Png
Png_try_from(bs) ==
    IF Len(bs) < Len(STANDARD_HEADER)
           \/ SubSeq(bs, 1, Len(STANDARD_HEADER)) # STANDARD_HEADER
    THEN Err(InvalidSignature)
    ELSE parse_chunks(SubSeq(bs, Len(STANDARD_HEADER) + 1, Len(bs)), <<>>)

\* impl TryFrom<PathBuf> for Png: reads the file, then parses it
Png_from_path(d, path) ==
    IF ~d[path].exists THEN Err(IoError) ELSE Png_try_from(d[path].bytes)

append_chunk(p, c) == [chunks |-> Append(p.chunks, c)]

chunks(p) == p.chunks

\* chunk-type equality against the type code given as text
type_matches(c, text) == bytes(c.chunk_type) = as_bytes_of_str(text)

Matches(p, text) == {i \in 1..Len(p.chunks) : type_matches(p.chunks[i], text)}

find_last_by_chunk(p, text) ==
    IF Matches(p, text) = {} THEN NoValue
    ELSE Some(CHOOSE i \in Matches(p, text) : \A j \in Matches(p, text) : j <= i)

\* linear scan, first match in sequence order
find_by_chunk(p, text) ==
    IF Matches(p, text) = {} THEN NoValue
    ELSE Some(CHOOSE i \in Matches(p, text) : \A j \in Matches(p, text) : i <= j)

\* Vec::remove(idx): the later elements move up by one
remove_at(cs, idx) ==
    [j \in 1..(Len(cs) - 1) |-> IF j < idx THEN cs[j] ELSE cs[j + 1]]

\* the answer and the container afterwards
remove_first_chunk(p, text) ==
    IF find_by_chunk(p, text) = NoValue
    THEN [res |-> Err(NotFound), png |-> p]
    ELSE [res |-> Ok(p.chunks[find_by_chunk(p, text).val]),
          png |-> [chunks |-> remove_at(p.chunks, find_by_chunk(p, text).val)]]

RECURSIVE concat_chunks(_, _)
concat_chunks(cs, i) ==
    IF i > Len(cs) THEN <<>> ELSE as_bytes(cs[i]) \o concat_chunks(cs, i + 1)

\* Png::as_bytes: the signature, then every chunk's as_bytes() in order
Png_as_bytes(p) == STANDARD_HEADER \o concat_chunks(p.chunks, 1)

\* impl Display for Chunk, ChunkType: "<type>: <payload bytes>"
Display_Chunk(c) == [chunk_type |-> bytes(c.chunk_type), data |-> c.data]

\* impl Display for Png: every chunk's rendering, in order
Display_Png(p) == [i \in 1..Len(p.chunks) |-> Display_Chunk(p.chunks[i])]

----------------------------------------------------------------------------
(* Inputs of the command line specification                                *)

MaxChunks == 3

Messages == {<<>>, <<<<65>>>>}

\* "RuSt" "bOAT" "rust" "abc"
LookupTexts ==
    { <<<<82>>, <<117>>, <<83>>, <<116>>>>,
      <<<<98>>, <<79>>, <<65>>, <<84>>>>,
      <<<<114>>, <<117>>, <<115>>, <<116>>>>,
      <<<<97>>, <<98>>, <<99>>>> }

\* the chunk types clap accepts for encode: those ChunkType::from_str accepts
EncodeTypes == {from_str(t).val : t \in {x \in TypeTexts : from_str(x).tag = "Ok"}}

\* chunks Chunk::new builds: "RuSt" with and without payload, "bOAT"
FileChunks ==
    { Chunk_new([bytes |-> <<82, 117, 83, 116>>], <<>>),
      Chunk_new([bytes |-> <<82, 117, 83, 116>>], <<65>>),
      Chunk_new([bytes |-> <<98, 79, 65, 84>>], <<65>>) }

WrittenFiles ==
    {Png_as_bytes([chunks |-> cs]) :
        cs \in UNION {[1..n -> FileChunks] : n \in 0..MaxChunks}}

\* an empty file; a wrong signature; a record cut inside its header; a record
\* shorter than its length field says; a record with a wrong checksum; a
\* file holding a chunk of type "rust"
DamagedFiles ==
    { <<>>,
      Png_as_bytes([chunks |-> <<Chunk_new([bytes |-> <<114, 117, 115, 116>>],
                                           <<65>>)>>]),
      <<137, 80, 78, 71, 13, 10, 26, 13>>,
      STANDARD_HEADER \o <<0, 0, 0, 0, 82>>,
      STANDARD_HEADER \o <<0, 0, 0, 9, 82, 117, 83, 116, 65, 0, 0, 0, 0>>,
      STANDARD_HEADER \o <<0, 0, 0, 0, 82, 117, 83, 116, 0, 0, 0, 0>> }

Missing == [exists |-> FALSE, bytes |-> <<>>]

File(bs) == [exists |-> TRUE, bytes |-> bs]

Commands ==
    {[cmd |-> "Encode", file |-> "file", chunk_type |-> t, message |-> m,
      output_file |-> o] :
        t \in EncodeTypes, m \in Messages, o \in {NoValue, Some("out")}}
    \cup {[cmd |-> c, file |-> "file", chunk_type |-> t] :
        c \in {"Decode", "Remove"}, t \in LookupTexts}
    \cup {[cmd |-> "Print", file |-> "file"]}

----------------------------------------------------------------------------
(* SpecCli: one run of main                                                *)

CliInit ==
    /\ LibIdle
    /\ s = <<>>
    /\ raw = <<0, 0, 0, 0>>
    /\ data = <<>>
    /\ step = "none"
    /\ command \in Commands
    /\ \E src \in {Missing} \cup {File(b) : b \in WrittenFiles \cup DamagedFiles},
          old \in {Missing, File(<<1, 2, 3>>)} :
           disk = [file |-> src, out |-> old]
    /\ pc = command.cmd
    /\ file_as_bytes = <<>>
    /\ png = NoValue
    /\ popped = NoValue
    /\ out_buf = NoValue
    /\ touched = {}
    /\ stdout = <<>>
    /\ exit = NoValue

\* the `?` operator and panics: the process ends with the error
Ends(r) ==
    /\ exit' = r
    /\ pc' = "done"

\* the file encode writes to
Destination ==
    IF command.output_file = NoValue THEN command.file ELSE command.output_file.val

\* main.rs 22: read(&file)?
EncRead ==
    /\ pc = "Encode"
    /\ IF disk[command.file].exists
       THEN /\ file_as_bytes' = disk[command.file].bytes
            /\ pc' = "enc_parse"
            /\ UNCHANGED exit
       ELSE /\ Ends(Err(IoError))
            /\ UNCHANGED file_as_bytes
    /\ UNCHANGED <<command, disk, png, popped, out_buf, touched, stdout>>
    /\ UNCHANGED libvars

\* main.rs 23: Png::try_from(file_as_bytes.as_ref())?
EncParse ==
    /\ pc = "enc_parse"
    /\ LET r == Png_try_from(file_as_bytes)
       IN  IF r.tag = "Ok"
           THEN /\ png' = r.val
                /\ pc' = "enc_append"
                /\ UNCHANGED exit
           ELSE /\ Ends(r)
                /\ UNCHANGED png
    /\ UNCHANGED <<command, disk, file_as_bytes, popped, out_buf, touched, stdout>>
    /\ UNCHANGED libvars

\* main.rs 25, 28-29 / 33: Chunk::new and append_chunk (on the copy or in place)
EncAppend ==
    /\ pc = "enc_append"
    /\ png' = append_chunk(png, Chunk_new(command.chunk_type,
                                          into_bytes(command.message)))
    /\ pc' = "enc_create"
    /\ UNCHANGED <<command, disk, file_as_bytes, popped, out_buf, touched, stdout,
                   exit>>
    /\ UNCHANGED libvars

\* main.rs 30 / 34: File::create(..)? creates or truncates the destination,
\* or fails and leaves it alone
EncCreate ==
    /\ pc = "enc_create"
    /\ \/ /\ disk' = [disk EXCEPT ![Destination] = File(<<>>)]
          /\ touched' = touched \cup {Destination}
          /\ pc' = "enc_serialize"
          /\ UNCHANGED exit
       \/ /\ Ends(Err(IoError))
          /\ UNCHANGED <<disk, touched>>
    /\ UNCHANGED <<command, file_as_bytes, png, popped, out_buf, stdout>>
    /\ UNCHANGED libvars

\* main.rs 31 / 35: the argument of write_all, .as_bytes(), is evaluated
EncSerialize ==
    /\ pc = "enc_serialize"
    /\ out_buf' = Some(Png_as_bytes(png))
    /\ pc' = "enc_write"
    /\ UNCHANGED <<command, disk, file_as_bytes, png, popped, touched, stdout, exit>>
    /\ UNCHANGED libvars

\* main.rs 31 / 35: write_all(..)? writes the buffer, or fails and leaves the
\* truncated file
EncWrite ==
    /\ pc = "enc_write"
    /\ \/ /\ disk' = [disk EXCEPT ![Destination] = File(out_buf.val)]
          /\ Ends(Ok("()"))
       \/ /\ Ends(Err(IoError))
          /\ UNCHANGED disk
    /\ UNCHANGED <<command, file_as_bytes, png, popped, out_buf, touched, stdout>>
    /\ UNCHANGED libvars

\* main.rs 40, 52, 58: Png::try_from(file)?
LoadPng(next) ==
    /\ LET r == Png_from_path(disk, command.file)
       IN  IF r.tag = "Ok"
           THEN /\ png' = r.val
                /\ pc' = next
                /\ UNCHANGED exit
           ELSE /\ Ends(r)
                /\ UNCHANGED png
    /\ UNCHANGED <<command, disk, file_as_bytes, popped, out_buf, touched, stdout>>
    /\ UNCHANGED libvars

DecParse ==
    /\ pc = "Decode"
    /\ LoadPng("dec_find")

\* main.rs 42-46: find_by_chunk(..).expect(..), chunks().get(idx).expect(..)
DecFind ==
    /\ pc = "dec_find"
    /\ LET idx == find_by_chunk(png, command.chunk_type)
       IN  IF idx = NoValue
           THEN /\ Ends(Panic)
                /\ UNCHANGED popped
           ELSE /\ popped' = chunks(png)[idx.val]
                /\ pc' = "dec_print"
                /\ UNCHANGED exit
    /\ UNCHANGED <<command, disk, file_as_bytes, png, out_buf, touched, stdout>>
    /\ UNCHANGED libvars

\* main.rs 48, 55: println!("{}", msg), println!("{popped}")
PrintChunk ==
    /\ stdout' = Append(stdout, Display_Chunk(popped))
    /\ Ends(Ok("()"))
    /\ UNCHANGED <<command, disk, file_as_bytes, png, popped, out_buf, touched>>
    /\ UNCHANGED libvars

DecPrint ==
    /\ pc = "dec_print"
    /\ PrintChunk

RmParse ==
    /\ pc = "Remove"
    /\ LoadPng("rm_remove")

\* main.rs 54: png.remove_first_chunk(&chunk_type)?
RmRemove ==
    /\ pc = "rm_remove"
    /\ LET removed == remove_first_chunk(png, command.chunk_type)
       IN  /\ png' = removed.png
           /\ IF removed.res.tag = "Ok"
              THEN /\ popped' = removed.res.val
                   /\ pc' = "rm_print"
                   /\ UNCHANGED exit
              ELSE /\ Ends(removed.res)
                   /\ UNCHANGED popped
    /\ UNCHANGED <<command, disk, file_as_bytes, out_buf, touched, stdout>>
    /\ UNCHANGED libvars

RmPrint ==
    /\ pc = "rm_print"
    /\ PrintChunk

PrParse ==
    /\ pc = "Print"
    /\ LoadPng("pr_print")

\* main.rs 59: println!("{png}")
PrPrint ==
    /\ pc = "pr_print"
    /\ stdout' = Append(stdout, Display_Png(png))
    /\ Ends(Ok("()"))
    /\ UNCHANGED <<command, disk, file_as_bytes, png, popped, out_buf, touched>>
    /\ UNCHANGED libvars

CliNext ==
    \/ EncRead
    \/ EncParse
    \/ EncAppend
    \/ EncCreate
    \/ EncSerialize
    \/ EncWrite
    \/ DecParse
    \/ DecFind
    \/ DecPrint
    \/ RmParse
    \/ RmRemove
    \/ RmPrint
    \/ PrParse
    \/ PrPrint

vars == <<libvars, clivars>>

SpecType == TypeInit /\ [][TypeNext]_vars

SpecChunk == ChunkInit /\ [][ChunkNext]_vars

SpecCli == CliInit /\ [][CliNext]_vars

----------------------------------------------------------------------------
(* Properties of ChunkType (SpecType)                                      *)

UpperCase == 65..90

LowerCase == 97..122

Letters == UpperCase \cup LowerCase

\* C6 as stated, counting characters: from_str answers InvalidLength when the
\* text is not exactly 4 characters, NonAsciiCharFound when it is 4 characters
\* and one of them is not an ASCII letter, and otherwise the 4 bytes.
C6_FromStrByCharacters ==
    step = "typed_text" =>
        chunk_type =
            IF Len(s) # 4 THEN Err("InvalidLength")
            ELSE IF \E i \in 1..4 : Len(s[i]) # 1 \/ s[i][1] \notin Letters
                 THEN Err("NonAsciiCharFound")
                 ELSE Ok([bytes |-> [i \in 1..4 |-> s[i][1]]])

\* C6 amended, counting UTF-8 bytes: from_str answers InvalidLength when the
\* text is not exactly 4 bytes long, NonAsciiCharFound when it is 4 bytes long
\* and one of them is not an ASCII letter, and otherwise exactly those 4
\* bytes, whatever the case of byte 2.
C6_FromStrByBytes ==
    step = "typed_text" =>
        LET utf8 == as_bytes_of_str(s)
        IN  chunk_type =
                IF Len(utf8) # 4 THEN Err("InvalidLength")
                ELSE IF \E i \in 1..4 : utf8[i] \notin Letters
                     THEN Err("NonAsciiCharFound")
                     ELSE Ok([bytes |-> utf8])

\* a text of 3 characters and 4 bytes was refused for its content
C6_Witness ==
    /\ step = "typed_text"
    /\ Len(s) = 3
    /\ Len(as_bytes_of_str(s)) = 4
    /\ chunk_type = Err("NonAsciiCharFound")

\* C7: is_valid answers Ok exactly when all 4 bytes are ASCII letters and
\* byte 2 is upper case, for every 4-byte value; is_critical, is_public,
\* is_reserved_bit_valid and is_safe_to_copy answer byte 0 upper case, byte 1
\* upper case, byte 2 upper case and byte 3 lower case.
C7_Queries ==
    step = "queried" =>
        LET b == chunk_type.val.bytes
        IN  /\ (flags.is_valid.tag = "Ok") <=>
                   ((\A i \in 1..4 : b[i] \in Letters) /\ b[3] \in UpperCase)
            /\ flags.is_critical <=> b[1] \in UpperCase
            /\ flags.is_public <=> b[2] \in UpperCase
            /\ (flags.is_reserved_bit_valid.tag = "Ok") <=> b[3] \in UpperCase
            /\ flags.is_safe_to_copy <=> b[4] \in LowerCase

\* "RuSt" built from raw bytes and queried
C7_Witness ==
    /\ step = "queried"
    /\ raw = <<82, 117, 83, 116>>
    /\ chunk_type.val.bytes = raw
    /\ flags.is_valid.tag = "Ok"
    /\ flags.is_critical
    /\ ~flags.is_public
    /\ flags.is_safe_to_copy

----------------------------------------------------------------------------
(* Properties of Chunk (SpecChunk)                                         *)

\* the record is cut short: under 12 bytes, or fewer than L + 4 bytes after
\* the length and type fields
Truncated(v) ==
    \/ Len(v) < 12
    \/ LET L == from_be_bytes(SubSeq(v, 1, 4))
       IN  L.hi > 0 \/ L.lo + 4 > Len(v) - 8

\* C1 as stated: Chunk::try_from on a truncated buffer fails with ShortInput.
C1_TruncatedIsShortInput ==
    (step = "parsed" /\ Truncated(value)) =>
        (parsed.tag = "Err" /\ parsed.err.kind = "ShortInput")

\* C2 as stated: a chunk built by Chunk::new from a type that from_str
\* accepted parses back from its as_bytes() with the same type, payload and
\* checksum.
C2_RoundTrip ==
    (step = "parsed" /\ value = as_bytes(chunk)) =>
        /\ parsed.tag = "Ok"
        /\ parsed.val.chunk_type = chunk.chunk_type
        /\ parsed.val.data = chunk.data
        /\ crc(parsed.val) = crc(chunk)

\* the buffer is the serialised chunk with another value in its checksum field
ChecksumAltered ==
    LET written == as_bytes(chunk)
        n == Len(written)
    IN  /\ Len(value) = n
        /\ SubSeq(value, 1, n - 4) = SubSeq(written, 1, n - 4)
        /\ SubSeq(value, n - 3, n) # SubSeq(written, n - 3, n)

TypeGateFails(v) ==
    /\ Len(v) >= 12
    /\ \/ \E i \in 5..8 : v[i] \notin Letters
       \/ v[7] \notin UpperCase

\* C5 as stated: such a buffer fails to parse with InvalidChunkType, whichever
\* rule is broken.
C5_AlwaysInvalidChunkType ==
    (step = "parsed" /\ TypeGateFails(value)) =>
        parsed = Err(ChunkTypeError("InvalidChunkType"))

\* C5 amended: such a buffer fails to parse with a chunk type error, before
\* its length or checksum is looked at: InvalidChunkType when byte 2 of the
\* type is not upper case, NonAsciiCharFound when byte 2 is upper case and
\* another byte is not an ASCII letter.
C5_TypeGate ==
    (step = "parsed" /\ TypeGateFails(value)) =>
        parsed = Err(ChunkTypeError(IF value[7] \notin UpperCase
                                    THEN "InvalidChunkType"
                                    ELSE "NonAsciiCharFound"))

\* both rules broken at once (byte 2 lower case, another byte no letter), in
\* a record that is also too short for its declared length
C5_Witness ==
    /\ step = "parsed"
    /\ TypeGateFails(value)
    /\ value[7] \in LowerCase
    /\ \E i \in 5..8 : value[i] \notin Letters
    /\ parsed = Err(ChunkTypeError("InvalidChunkType"))

----------------------------------------------------------------------------
(* Properties of the container and of main (SpecCli)                       *)

\* C3 as stated: a container parsed from a file and extended by append_chunk
\* with a chunk from Chunk::new parses back from its serialisation to the
\* same chunk sequence, and the file a successful encode wrote parses again
\* to the container that was written.
C3_EncodedPngParsesAgain ==
    command.cmd = "Encode" =>
        /\ pc = "enc_create" => Png_try_from(Png_as_bytes(png)) = Ok(png)
        /\ exit = Ok("()") => Png_try_from(disk[Destination].bytes) = Ok(png)

\* C8: remove_first_chunk(type) removes and returns the first chunk of that
\* type, the sequence gets shorter by exactly one and every other chunk
\* (later chunks of the same type too) keeps its place in the order; with no
\* chunk of that type it answers NotFound and the sequence is as before.
C8_RemoveFirst ==
    [][pc = "rm_remove" =>
          LET before == png.chunks
              wanted == as_bytes_of_str(command.chunk_type)
              hits == {i \in 1..Len(before) : before[i].chunk_type.bytes = wanted}
          IN  IF hits = {}
              THEN exit' = Err(NotFound) /\ png' = png /\ popped' = popped
              ELSE \E i \in hits :
                      /\ \A j \in hits : i <= j
                      /\ popped' = before[i]
                      /\ exit' = NoValue
                      /\ Len(png'.chunks) = Len(before) - 1
                      /\ \A j \in 1..(Len(before) - 1) :
                             png'.chunks[j] = IF j < i THEN before[j]
                                              ELSE before[j + 1]
      ]_vars

\* the first of two chunks of one type was removed from behind a chunk of
\* another type; the second one and the other chunk stayed, in order
C8_Witness ==
    /\ pc = "rm_print"
    /\ Len(png.chunks) = 2
    /\ png.chunks[1].chunk_type # popped.chunk_type
    /\ png.chunks[2].chunk_type = popped.chunk_type
    /\ png.chunks[2].data # popped.data

\* C9 as stated: decode of a well-formed PNG ends with the error NotFound when
\* no chunk has the requested type, and prints the first chunk of that type
\* when there is one.
C9_DecodeNotFoundIsError ==
    (command.cmd = "Decode" /\ pc = "done"
        /\ Png_from_path(disk, command.file).tag = "Ok") =>
        LET held == Png_from_path(disk, command.file).val.chunks
            wanted == as_bytes_of_str(command.chunk_type)
            hits == {i \in 1..Len(held) : held[i].chunk_type.bytes = wanted}
        IN  IF hits = {}
            THEN exit = Err(NotFound)
            ELSE /\ exit = Ok("()")
                 /\ \E i \in hits :
                        /\ \A j \in hits : i <= j
                        /\ stdout = <<Display_Chunk(held[i])>>

\* C10 as stated: the destination of encode is not created, truncated or
\* written before the new serialised buffer has been built, and a failure
\* before that point leaves the destination as it was.
C10_WriteAfterBuild ==
    command.cmd = "Encode" =>
        /\ Destination \in touched => out_buf # NoValue
        /\ (exit.tag \in {"Err", "Panic"} /\ out_buf = NoValue) =>
               Destination \notin touched

\* C11 as stated: after a remove of a type the PNG holds, the stored PNG is
\* the serialisation of the container without the first matching chunk (that
\* occurrence is no longer in the file), and the removed chunk is given back
\* (printed) for confirmation.
C11_RemoveStoresPng ==
    (command.cmd = "Remove" /\ pc = "done" /\ exit = Ok("()")) =>
        /\ disk[command.file].bytes = Png_as_bytes(png)
        /\ stdout = <<Display_Chunk(popped)>>

----------------------------------------------------------------------------
(* Layout of a record and what a parse consumes (SpecChunk)                *)

\* C12: as_bytes() of a chunk with type t and payload d is exactly
\* 12 + len(d) bytes: len(d) in 4 big-endian bytes, the 4 bytes of t, d
\* verbatim, and CRC-32/ISO-HDLC of t ++ d (the length field left out) in 4
\* big-endian bytes; both fields are those of the chunk's current type and
\* payload.
C12_Layout ==
    step = "serialized" =>
        LET t == chunk_type.val.bytes
            n == Len(data)
        IN  /\ Len(value) = 12 + n
            /\ SubSeq(value, 1, 4) = <<0, 0, 0, n>>
            /\ SubSeq(value, 5, 8) = t
            /\ SubSeq(value, 9, 8 + n) = data
            /\ from_be_bytes(SubSeq(value, 9 + n, 12 + n)) = checksum(t \o data)
            /\ value = as_bytes(Chunk_new(chunk.chunk_type, chunk.data))

\* the record of the chunk "RuSt" with payload "A", checksum 0xFC626605
C12_Witness ==
    /\ step = "serialized"
    /\ value = <<0, 0, 0, 1, 82, 117, 83, 116, 65, 252, 98, 102, 5>>

\* C13: when Chunk::try_from succeeds on a buffer b whose length field says
\* L, the chunk's payload is b[8 .. 8+L], its as_bytes() is exactly the first
\* 12 + L bytes of b, and the result is the same for those 12 + L bytes alone
\* and for them followed by any other bytes.
C13_OwnRecordOnly ==
    (step = "parsed" /\ parsed.tag = "Ok") =>
        LET L == as_usize(from_be_bytes(SubSeq(value, 1, 4)))
            record == SubSeq(value, 1, 12 + L)
        IN  /\ Len(value) >= 12 + L
            /\ parsed.val.data = SubSeq(value, 9, 8 + L)
            /\ as_bytes(parsed.val) = record
            /\ Chunk_try_from(record) = parsed
            /\ \A tail \in ExtraTails : Chunk_try_from(record \o tail) = parsed

\* a record with a payload, followed by further bytes, was parsed
C13_Witness ==
    /\ step = "parsed"
    /\ parsed.tag = "Ok"
    /\ parsed.val.data # <<>>
    /\ Len(value) > 12 + Len(parsed.val.data)

----------------------------------------------------------------------------
(* Parse of the container (SpecCli)                                        *)

\* main has just parsed the file into a container
JustParsed == pc \in {"enc_append", "dec_find", "rm_remove", "pr_print"}

\* main has ended at the parse of a file it could read
ParseRefused == pc = "done" /\ png = NoValue /\ disk[command.file].exists

\* C14 as stated: the parse of a buffer fails with InvalidSignature unless the
\* buffer starts with 89 50 4E 47 0D 0A 1A 0A; otherwise it either returns
\* the chunks parsed from successive suffixes, 12 + L bytes each, in order and
\* up to the end of the buffer (none for a signature-only buffer), or fails
\* with the error of the chunk parse that failed, after chunks that parsed.
C14_AllOrNothing ==
    (JustParsed \/ ParseRefused) =>
        LET b == disk[command.file].bytes
            r == IF JustParsed THEN Ok(png) ELSE exit
            consumed(cs, i) == Len(Png_as_bytes([chunks |-> SubSeq(cs, 1, i - 1)]))
        IN  IF Len(b) < 8 \/ SubSeq(b, 1, 8) # <<137, 80, 78, 71, 13, 10, 26, 10>>
            THEN r = Err(InvalidSignature)
            ELSE /\ r.tag \in {"Ok", "Err"}
                 /\ r.tag = "Ok" =>
                        /\ Png_as_bytes(r.val) = b
                        /\ Len(b) = 8 => r.val.chunks = <<>>
                        /\ \A i \in 1..Len(r.val.chunks) :
                               Chunk_try_from(SubSeq(b, consumed(r.val.chunks, i) + 1,
                                                     Len(b)))
                                   = Ok(r.val.chunks[i])
                 /\ r.tag = "Err" =>
                        \E n \in 8..Len(b) :
                            /\ Png_try_from(SubSeq(b, 1, n)).tag = "Ok"
                            /\ Chunk_try_from(SubSeq(b, n + 1, Len(b))) = r

====
